---- MODULE Spec2Model ----
(***************************************************************************)
(* Model of the JavaScript bridge (html/bridge.js, latest revision): the   *)
(* tool dispatcher window.amplifier_execute_tool and the completion        *)
(* adapter window.amplifier_llm_complete.                                  *)
(*                                                                         *)
(* JavaScript values are records [t, v]: t is the kind of value and v a    *)
(* string (the string itself, the numeral, the canonical JSON text of an   *)
(* object, or the message of an Error object).                             *)
(***************************************************************************)
EXTENDS Integers, Sequences, FiniteSets, Bags, TLC

(* ---------------------------------------------------------------------- *)
(* Bounds                                                                  *)
(* ---------------------------------------------------------------------- *)

\* Number of dispatches that may be awaiting their execute function at once.
MaxToolsInFlight == 2

\* Number of completion calls that may be awaiting the backend at once.
MaxLlmInFlight == 1

\* Longest request history whose conversion is explored.
MaxMessages == 2

\* Number of dispatches followed from call to settlement in one run.
MaxDispatches == 2

(* ---------------------------------------------------------------------- *)
(* JavaScript values                                                       *)
(* ---------------------------------------------------------------------- *)

Undef == [t |-> "undefined", v |-> ""]
Null == [t |-> "null", v |-> ""]
Str(s) == [t |-> "string", v |-> s]
Num(s) == [t |-> "number", v |-> s]
Bool(s) == [t |-> "boolean", v |-> s]
Obj(s) == [t |-> "object", v |-> s]
Func(s) == [t |-> "function", v |-> s]
Err(s) == [t |-> "Error", v |-> s]
TypeErr(s) == [t |-> "TypeError", v |-> s]
SyntaxErr(s) == [t |-> "SyntaxError", v |-> s]

ErrorNames == {"Error", "TypeError", "SyntaxError"}

IsErrorObj(x) == x.t \in ErrorNames

IsNullish(x) == x.t \in {"undefined", "null"}

\* ToBoolean: undefined, null, false, 0, NaN and "" are falsy.
Truthy(x) ==
    CASE x.t \in {"undefined", "null"} -> FALSE
      [] x.t = "boolean" -> x.v = "true"
      [] x.t = "number" -> x.v \notin {"0", "NaN"}
      [] x.t = "string" -> x.v # ""
      [] OTHER -> TRUE

\* typeof x
TypeOf(x) ==
    CASE x.t = "null" -> "object"
      [] IsErrorObj(x) -> "object"
      [] OTHER -> x.t

\* String(x): Error.prototype.toString gives the name when the message is
\* empty and "name: message" otherwise.
StringOf(x) ==
    CASE x.t = "undefined" -> "undefined"
      [] x.t = "null" -> "null"
      [] x.t = "object" -> "[object Object]"
      [] x.t = "function" -> "function () { [native code] }"
      [] IsErrorObj(x) -> IF x.v = "" THEN x.t ELSE x.t \o ": " \o x.v
      [] OTHER -> x.v

\* x.message for a non-nullish x: Error objects carry one, the other values
\* of the model do not.
Message(x) == IF IsErrorObj(x) THEN Str(x.v) ELSE Undef

(* ---------------------------------------------------------------------- *)
(* Strings                                                                 *)
(* ---------------------------------------------------------------------- *)

CharAt(s, i) == SubSeq(s, i, i)

\* The 1-based positions at which sub occurs in s.
Occurrences(s, sub) ==
    {i \in 1..(Len(s) - Len(sub) + 1) : SubSeq(s, i, i + Len(sub) - 1) = sub}

\* String.prototype.includes
Includes(s, sub) == Occurrences(s, sub) # {}

Min(S) == CHOOSE x \in S : \A y \in S : x <= y

WhiteSpace == {" ", "\n", "\t"}

Max(S) == CHOOSE x \in S : \A y \in S : x >= y

\* String.prototype.trim: the text from the first to the last character
\* that is not white space.
Trim(s) ==
    LET inked == {i \in 1..Len(s) : CharAt(s, i) \notin WhiteSpace}
    IN IF inked = {} THEN "" ELSE SubSeq(s, Min(inked), Max(inked))

(* ---------------------------------------------------------------------- *)
(* JSON                                                                    *)
(* ---------------------------------------------------------------------- *)

\* The properties the bridge reads from a parsed backend output; a property
\* the object does not have reads as undefined.
Props(type, name, content, arguments) ==
    [type |-> type, name |-> name, content |-> content, arguments |-> arguments]

NoProps == Props(Undef, Undef, Undef, Undef)

\* The object texts of the model, by canonical JSON text, with the properties
\* the bridge reads from them.
ObjectProps ==
    ("{}" :> NoProps) @@
    ("{\"x\":1}" :> NoProps) @@
    ("{\"success\":true}" :> NoProps) @@
    ("{\"type\":\"text\",\"content\":\"hello\"}" :>
        Props(Str("text"), Undef, Str("hello"), Undef)) @@
    ("{\"type\":\"text\",\"content\":\"\"}" :>
        Props(Str("text"), Undef, Str(""), Undef)) @@
    ("{\"type\":\"text\"}" :>
        Props(Str("text"), Undef, Undef, Undef)) @@
    ("{\"type\":\"text\",\"content\":null}" :>
        Props(Str("text"), Undef, Null, Undef)) @@
    ("{\"type\":\"text\",\"content\":0}" :>
        Props(Str("text"), Undef, Num("0"), Undef)) @@
    ("{\"type\":\"text\",\"content\":5}" :>
        Props(Str("text"), Undef, Num("5"), Undef)) @@
    ("{\"content\":\"hi\"}" :>
        Props(Undef, Undef, Str("hi"), Undef)) @@
    ("{\"type\":\"\",\"content\":\"hi\"}" :>
        Props(Str(""), Undef, Str("hi"), Undef)) @@
    ("{\"type\":\"tool_call\",\"name\":\"echo\",\"arguments\":{\"x\":1}}" :>
        Props(Str("tool_call"), Str("echo"), Undef, Obj("{\"x\":1}"))) @@
    ("{\"type\":\"tool_call\",\"name\":\"echo\",\"arguments\":{}}" :>
        Props(Str("tool_call"), Str("echo"), Undef, Obj("{}"))) @@
    ("{\"type\":\"tool_call\",\"name\":\"echo\"}" :>
        Props(Str("tool_call"), Str("echo"), Undef, Undef)) @@
    ("{\"type\":\"tool_call\",\"name\":\"echo\",\"arguments\":null}" :>
        Props(Str("tool_call"), Str("echo"), Undef, Null)) @@
    ("{\"type\":\"tool_call\",\"name\":\"echo\",\"arguments\":0}" :>
        Props(Str("tool_call"), Str("echo"), Undef, Num("0"))) @@
    ("{\"type\":\"tool_call\",\"name\":\"search\",\"arguments\":{}}" :>
        Props(Str("tool_call"), Str("search"), Undef, Obj("{}"))) @@
    ("{\"type\":\"tool_call\"}" :>
        Props(Str("tool_call"), Undef, Undef, Undef)) @@
    ("{\"type\":\"other\"}" :>
        Props(Str("other"), Undef, Undef, Undef)) @@
    ("{\"type\":\"other\",\"content\":\"hello\"}" :>
        Props(Str("other"), Undef, Str("hello"), Undef))

\* x[k] for a non-nullish x.
Prop(x, k) ==
    IF x.t = "object" /\ x.v \in DOMAIN ObjectProps THEN ObjectProps[x.v][k]
    ELSE Undef

\* An array property: absent, or the sequence of its items.
Absent == [defined |-> FALSE, items |-> <<>>]
Items(seq) == [defined |-> TRUE, items |-> seq]

\* A message of a request: the properties the bridge reads from it.
Msg(role, content, tool_call_id, tool_calls) ==
    [role |-> role, content |-> content, tool_call_id |-> tool_call_id,
     tool_calls |-> tool_calls]

\* A tool call carried by an assistant message.
Call(name, arguments) == [name |-> name, arguments |-> arguments]

\* A tool specification of a request.
ToolSpec(name, description, parameters) ==
    [name |-> name, description |-> description, parameters |-> parameters]

Request(messages, tools, temperature, max_tokens) ==
    [messages |-> messages, tools |-> tools, temperature |-> temperature,
     max_tokens |-> max_tokens]

UserHi == Msg(Str("user"), Str("hi"), Undef, Absent)
EchoSpec == ToolSpec(Str("echo"), Str("Echo"), Obj("{}"))

\* The request texts of the model, with the properties the bridge reads.
RequestProps ==
    ("{\"messages\":[]}" :> Request(Items(<<>>), Absent, Undef, Undef)) @@
    ("{\"messages\":[{\"role\":\"user\",\"content\":\"hi\"}],\"tools\":[]}" :>
        Request(Items(<<UserHi>>), Items(<<>>), Undef, Undef)) @@
    ("{\"messages\":[{\"role\":\"user\",\"content\":\"hi\"}],\"tools\":[{\"name\":\"echo\",\"description\":\"Echo\",\"parameters\":{}}],\"temperature\":0,\"max_tokens\":0}" :>
        Request(Items(<<UserHi>>), Items(<<EchoSpec>>), Num("0"), Num("0"))) @@
    ("{\"messages\":[{\"role\":\"system\",\"content\":\"sys\"},{\"role\":\"user\",\"content\":\"hi\"},{\"role\":\"assistant\",\"content\":\"\",\"tool_calls\":[{\"id\":\"c1\",\"name\":\"echo\",\"arguments\":{\"x\":1}}]},{\"role\":\"tool\",\"tool_call_id\":\"c1\",\"content\":\"42\"}],\"tools\":[{\"name\":\"echo\",\"description\":\"Echo\",\"parameters\":{}}],\"temperature\":0.2,\"max_tokens\":100}" :>
        Request(Items(<<Msg(Str("system"), Str("sys"), Undef, Absent),
                        UserHi,
                        Msg(Str("assistant"), Str(""), Undef,
                            Items(<<Call(Str("echo"), Obj("{\"x\":1}"))>>)),
                        Msg(Str("tool"), Str("42"), Str("c1"), Absent)>>),
                Items(<<EchoSpec>>), Num("0.2"), Num("100")))

\* Texts JSON.parse accepts beside the canonical ones (insignificant
\* whitespace), with their canonical text.
Canonical ==
    ("{ }" :> "{}")

Digits == {"0", "1", "2", "3", "4", "5", "6", "7", "8", "9"}

IsNumeral(s) ==
    /\ Len(s) > 0
    /\ \A i \in 1..Len(s) : CharAt(s, i) \in Digits
    /\ (Len(s) > 1 => CharAt(s, 1) # "0")

\* A JSON string literal without escapes.
IsPlainStringLiteral(s) ==
    /\ Len(s) >= 2
    /\ CharAt(s, 1) = "\"" /\ CharAt(s, Len(s)) = "\""
    /\ \A i \in 2..(Len(s) - 1) : CharAt(s, i) \notin {"\"", "\\"}

Returned(x) == [threw |-> FALSE, val |-> x]
Threw(e) == [threw |-> TRUE, val |-> e]

\* JSON.parse(s): the value, or a SyntaxError.
JSONparse(s) ==
    CASE s \in DOMAIN ObjectProps \cup DOMAIN RequestProps -> Returned(Obj(s))
      [] s \in DOMAIN Canonical -> Returned(Obj(Canonical[s]))
      [] s = "null" -> Returned(Null)
      [] s \in {"true", "false"} -> Returned(Bool(s))
      [] IsNumeral(s) -> Returned(Num(s))
      [] IsPlainStringLiteral(s) -> Returned(Str(SubSeq(s, 2, Len(s) - 1)))
      [] OTHER -> Threw(SyntaxErr("Unexpected token in JSON"))

\* The escape JSON.stringify writes for one character.
EscapeChar(c) ==
    CASE c = "\"" -> "\\\""
      [] c = "\\" -> "\\\\"
      [] c = "\n" -> "\\n"
      [] c = "\t" -> "\\t"
      [] OTHER -> c

RECURSIVE JSONescape(_)
\* The characters of s, each escaped (by halves, to keep the recursion flat).
JSONescape(s) ==
    IF Len(s) <= 1 THEN EscapeChar(s)
    ELSE LET half == Len(s) \div 2
         IN JSONescape(SubSeq(s, 1, half)) \o JSONescape(SubSeq(s, half + 1, Len(s)))

\* JSON.stringify of a string.
JSONquote(s) == "\"" \o JSONescape(s) \o "\""

\* JSON.stringify(x): a string, or undefined for undefined and functions.
\* An Error object has no enumerable property.
JSONstringify(x) ==
    CASE x.t \in {"undefined", "function"} -> Undef
      [] x.t = "null" -> Str("null")
      [] x.t = "string" -> Str(JSONquote(x.v))
      [] IsErrorObj(x) -> Str("{}")
      [] OTHER -> Str(x.v)

RECURSIVE Join(_, _)
\* Array.prototype.join on a sequence of strings.
Join(strs, sep) ==
    IF Len(strs) = 0 THEN ""
    ELSE IF Len(strs) = 1 THEN strs[1]
    ELSE strs[1] \o sep \o Join(Tail(strs), sep)

RECURSIVE SelectDefined(_)
\* The members JSON.stringify keeps: those whose value is not undefined.
SelectDefined(ms) ==
    IF Len(ms) = 0 THEN <<>>
    ELSE IF JSONstringify(ms[1].x).t = "undefined" THEN SelectDefined(Tail(ms))
    ELSE <<ms[1]>> \o SelectDefined(Tail(ms))

Member(k, x) == [k |-> k, x |-> x]

\* JSON.stringify of an object literal with the members ms, in order.
JSONobject(ms) ==
    LET kept == SelectDefined(ms)
    IN "{" \o Join([i \in 1..Len(kept) |->
                      JSONquote(kept[i].k) \o ":" \o JSONstringify(kept[i].x).v],
                   ",") \o "}"

\* JSON.stringify of an array of strings that are JSON texts already.
JSONarray(texts) == "[" \o Join(texts, ",") \o "]"

(* ---------------------------------------------------------------------- *)
(* State                                                                   *)
(* ---------------------------------------------------------------------- *)

VARIABLES
    toolRegistry,   \* the tool registry: name -> [language, execute]
    toolsInFlight,  \* bag of dispatches suspended at "await tool.execute(input)"
    lastDispatch,   \* the dispatch that settled last
    webllmEngine,   \* whether the engine handle is set (null before initWebLLM)
    llmInFlight,    \* bag of completions suspended at "await ...create(params)"
    lastLlm,        \* the completion call that settled last
    callRequest,    \* the parsed request of the call that builds its parameters
    arrays,         \* the message arrays alive in that call, by reference
    callMessages,   \* the array the local "messages" refers to (0: not yet built)
    completionParams, \* the parameters built for the backend call
    started,        \* the dispatches followed one by one, in the order of their calls
    uiLog           \* what they did, in the order in which it happened

toolVars == <<toolRegistry, toolsInFlight, lastDispatch>>
llmVars == <<webllmEngine, llmInFlight, lastLlm>>
paramVars == <<callRequest, arrays, callMessages, completionParams>>
logVars == <<started, uiLog>>
vars == <<toolRegistry, toolsInFlight, lastDispatch, webllmEngine, llmInFlight,
          lastLlm, callRequest, arrays, callMessages, completionParams,
          started, uiLog>>

(* ---------------------------------------------------------------------- *)
(* Inputs                                                                  *)
(* ---------------------------------------------------------------------- *)

\* Names offered to amplifier_execute_tool: the registered ones, one that
\* is nowhere defined, and two property names of Object.prototype.
ToolNames ==
    {"web_research", "code_analysis", "document_builder",
     "frobnicate", "constructor", "__proto__"}

\* Texts offered as inputJson.
InputJsons == {"{}", "{\"x\":1}", "not json"}

\* Values an external tool function resolves with.
ResultVals ==
    {Obj("{\"success\":true}"), Str("{\"success\":true}"), Str("{ }"),
     Str("not json"), Undef}

\* Values an external tool function throws or rejects with.
ThrownVals == {Err("boom"), Err(""), Str("boom"), Undef}

\* Texts the Python and Go runtimes hand back to the bridge.
RuntimeTexts == {"{\"success\":true}", "\"hello\"", "not json"}

(* ---------------------------------------------------------------------- *)
(* Tool registry                                                           *)
(* ---------------------------------------------------------------------- *)

\* The registry is a plain object literal {}: property reads that find no own
\* property continue on Object.prototype.
ObjectPrototype ==
    ("constructor" :> Func("Object")) @@
    ("__proto__" :> Obj("{}")) @@
    ("toString" :> Func("toString")) @@
    ("valueOf" :> Func("valueOf")) @@
    ("hasOwnProperty" :> Func("hasOwnProperty"))

\* registerTools(): the three assignments to toolRegistry.
registerTools(reg) ==
    ("web_research" :> [language |-> "TypeScript", execute |-> "tsWebResearch"]) @@
    ("code_analysis" :> [language |-> "Python", execute |-> "pyCodeAnalysis"]) @@
    ("document_builder" :> [language |-> "Go", execute |-> "goDocumentBuilder"]) @@
    reg

Fulfilled(x) == [kind |-> "fulfilled", val |-> x]
Rejected(e) == [kind |-> "rejected", val |-> e]
NoOutcome == [kind |-> "none", val |-> Undef]

Settle(r) == IF r.threw THEN Rejected(r.val) ELSE Fulfilled(r.val)

\* The ways the promise returned by a registered execute function settles.
\* web_research forwards to window.tsWebResearch; code_analysis and
\* document_builder guard on their runtime, call it and JSON.parse its text.
ExecuteOutcomes(execute) ==
    CASE execute = "tsWebResearch" ->
            {Fulfilled(x) : x \in ResultVals} \cup {Rejected(e) : e \in ThrownVals}
      [] execute = "pyCodeAnalysis" ->
            {Rejected(Err("Pyodide not loaded"))}
            \cup {Rejected(e) : e \in ThrownVals}
            \cup {Settle(JSONparse(s)) : s \in RuntimeTexts}
      [] execute = "goDocumentBuilder" ->
            {Rejected(Err("Go WASM not loaded"))}
            \cup {Rejected(e) : e \in ThrownVals}
            \cup {Settle(JSONparse(s)) : s \in RuntimeTexts}

(* ---------------------------------------------------------------------- *)
(* window.amplifier_execute_tool                                           *)
(* ---------------------------------------------------------------------- *)

\* toolRegistry[name]
RegistryGet(reg, name) ==
    IF name \in DOMAIN reg THEN Obj(name)
    ELSE IF name \in DOMAIN ObjectPrototype THEN ObjectPrototype[name]
    ELSE Undef

\* tool.language of the value found by the lookup.
LanguageOf(reg, name) ==
    IF name \in DOMAIN reg THEN Str(reg[name].language) ELSE Undef

\* updateToolUI that lets the "complete" status go unreported.
updateToolUI_DropsComplete(events, reg, name, status) ==
    IF status = "complete" THEN events
    ELSE Append(events, [name |-> name, language |-> LanguageOf(reg, name),
                         status |-> status])

\* updateToolUI(name, tool.language, status), appended to the dispatch's events.
updateToolUI(events, reg, name, status) ==
    Append(events, [name |-> name, language |-> LanguageOf(reg, name), status |-> status])

\* JSON.stringify({ success: false, error: msg })
ErrorEnvelope(msg) ==
    JSONobject(<<Member("success", Bool("false")), Member("error", Str(msg))>>)

NoDispatch ==
    [pc |-> "none", name |-> "", inputJson |-> "", events |-> <<>>,
     invoked |-> 0, outcome |-> NoOutcome, result |-> Undef]

Dispatched(pc, name, inputJson, events, invoked, outcome, result) ==
    [pc |-> pc, name |-> name, inputJson |-> inputJson, events |-> events,
     invoked |-> invoked, outcome |-> outcome, result |-> result]

\* CatchDispatch with the envelope built from String(e) alone.
CatchDispatch_StringOnly(reg, name, inputJson, events, invoked, outcome, e) ==
    Dispatched("resolved", name, inputJson,
               updateToolUI(events, reg, name, "error"), invoked, outcome,
               Str(ErrorEnvelope(StringOf(e))))

\* The catch block: emit "error", then return the envelope built from
\* e.message || String(e). Reading .message of null or undefined throws
\* inside the catch block, which rejects the promise of the dispatch.
CatchDispatch(reg, name, inputJson, events, invoked, outcome, e) ==
    LET ev == updateToolUI(events, reg, name, "error")
    IN IF IsNullish(e)
       THEN Dispatched("rejected", name, inputJson, ev, invoked, outcome,
                       TypeErr("Cannot read properties of " \o e.t))
       ELSE LET msg == IF Truthy(Message(e)) THEN Message(e).v ELSE StringOf(e)
            IN Dispatched("resolved", name, inputJson, ev, invoked, outcome,
                          Str(ErrorEnvelope(msg)))

\* ExecuteToolCall calling the execute function before it parses inputJson.
ExecuteToolCall_InvokesBeforeParsing(name, inputJson) ==
    LET tool == RegistryGet(toolRegistry, name)
        input == JSONparse(inputJson)
        running == updateToolUI(<<>>, toolRegistry, name, "running")
    IN /\ BagCardinality(toolsInFlight) < MaxToolsInFlight
       /\ UNCHANGED <<toolRegistry, llmVars, paramVars>>
       /\ IF ~Truthy(tool)
          THEN /\ lastDispatch' =
                    Dispatched("resolved", name, inputJson, <<>>, 0, NoOutcome,
                               Str(ErrorEnvelope("Unknown tool: " \o name)))
               /\ UNCHANGED toolsInFlight
          ELSE IF name \notin DOMAIN toolRegistry
          THEN /\ lastDispatch' =
                    CatchDispatch(toolRegistry, name, inputJson, running, 0,
                                  NoOutcome,
                                  TypeErr("tool.execute is not a function"))
               /\ UNCHANGED toolsInFlight
          ELSE IF input.threw
          THEN /\ lastDispatch' =
                    CatchDispatch(toolRegistry, name, inputJson, running, 1,
                                  NoOutcome, input.val)
               /\ UNCHANGED toolsInFlight
          ELSE /\ toolsInFlight' = toolsInFlight (+)
                    SetToBag({[name |-> name, inputJson |-> inputJson,
                               input |-> input.val, events |-> running]})
               /\ UNCHANGED lastDispatch

\* The call up to "await tool.execute(input)".
ExecuteToolCall(name, inputJson) ==
    LET tool == RegistryGet(toolRegistry, name)
        input == JSONparse(inputJson)
        running == updateToolUI(<<>>, toolRegistry, name, "running")
    IN /\ BagCardinality(toolsInFlight) < MaxToolsInFlight
       /\ UNCHANGED <<toolRegistry, llmVars, paramVars>>
       /\ IF ~Truthy(tool)
          THEN /\ lastDispatch' =
                    Dispatched("resolved", name, inputJson, <<>>, 0, NoOutcome,
                               Str(ErrorEnvelope("Unknown tool: " \o name)))
               /\ UNCHANGED toolsInFlight
          ELSE IF input.threw
          THEN /\ lastDispatch' =
                    CatchDispatch(toolRegistry, name, inputJson, <<>>, 0,
                                  NoOutcome, input.val)
               /\ UNCHANGED toolsInFlight
          ELSE IF name \notin DOMAIN toolRegistry
          THEN \* the inherited value has no execute property
               /\ lastDispatch' =
                    CatchDispatch(toolRegistry, name, inputJson, running, 0,
                                  NoOutcome,
                                  TypeErr("tool.execute is not a function"))
               /\ UNCHANGED toolsInFlight
          ELSE /\ toolsInFlight' = toolsInFlight (+)
                    SetToBag({[name |-> name, inputJson |-> inputJson,
                               input |-> input.val, events |-> running]})
               /\ UNCHANGED lastDispatch

\* ExecuteToolResume encoding a string result as it is, without parsing it.
ExecuteToolResume_StringNotParsed(d, outcome) ==
    LET reg == toolRegistry
        done == updateToolUI(d.events, reg, d.name, "complete")
    IN /\ toolsInFlight' = toolsInFlight (-) SetToBag({d})
       /\ UNCHANGED <<toolRegistry, llmVars, paramVars>>
       /\ lastDispatch' =
            IF outcome.kind = "rejected"
            THEN CatchDispatch(reg, d.name, d.inputJson, d.events, 1, outcome,
                               outcome.val)
            ELSE Dispatched("resolved", d.name, d.inputJson, done, 1, outcome,
                            JSONstringify(outcome.val))

\* ExecuteToolResume taking a tool whose execute function failed out of the
\* registry.
ExecuteToolResume_UnregistersFailedTool(d, outcome) ==
    LET reg == toolRegistry
        done == updateToolUI(d.events, reg, d.name, "complete")
        parsed == IF TypeOf(outcome.val) = "string"
                  THEN JSONparse(outcome.val.v)
                  ELSE Returned(outcome.val)
    IN /\ toolsInFlight' = toolsInFlight (-) SetToBag({d})
       /\ UNCHANGED <<llmVars, paramVars>>
       /\ toolRegistry' =
            IF outcome.kind = "rejected"
            THEN [n \in DOMAIN reg \ {d.name} |-> reg[n]]
            ELSE reg
       /\ lastDispatch' =
            IF outcome.kind = "rejected"
            THEN CatchDispatch(reg, d.name, d.inputJson, d.events, 1, outcome,
                               outcome.val)
            ELSE IF parsed.threw
            THEN CatchDispatch(reg, d.name, d.inputJson, done, 1, outcome,
                               parsed.val)
            ELSE Dispatched("resolved", d.name, d.inputJson, done, 1, outcome,
                            JSONstringify(parsed.val))

\* The rest of the call, once the promise of the execute function settled.
ExecuteToolResume(d, outcome) ==
    LET reg == toolRegistry
        done == updateToolUI(d.events, reg, d.name, "complete")
        parsed == IF TypeOf(outcome.val) = "string"
                  THEN JSONparse(outcome.val.v)
                  ELSE Returned(outcome.val)
    IN /\ toolsInFlight' = toolsInFlight (-) SetToBag({d})
       /\ UNCHANGED <<toolRegistry, llmVars, paramVars>>
       /\ lastDispatch' =
            IF outcome.kind = "rejected"
            THEN CatchDispatch(reg, d.name, d.inputJson, d.events, 1, outcome,
                               outcome.val)
            ELSE IF parsed.threw
            THEN CatchDispatch(reg, d.name, d.inputJson, done, 1, outcome,
                               parsed.val)
            ELSE Dispatched("resolved", d.name, d.inputJson, done, 1, outcome,
                            JSONstringify(parsed.val))

ExecuteTool ==
    \E name \in ToolNames, inputJson \in InputJsons :
        ExecuteToolCall(name, inputJson) /\ UNCHANGED logVars

ExecuteToolSettles ==
    \E d \in BagToSet(toolsInFlight) :
        \E outcome \in ExecuteOutcomes(toolRegistry[d.name].execute) :
            ExecuteToolResume(d, outcome) /\ UNCHANGED logVars

(* ---------------------------------------------------------------------- *)
(* Dispatches followed one by one                                          *)
(* ---------------------------------------------------------------------- *)

\* Names and texts of the dispatches that are followed.
FollowedNames == {"web_research", "code_analysis", "frobnicate", "constructor"}
FollowedInputs == {"{}", "not json"}

\* An entry of the log: what dispatch id did.
Did(id, what) == [id |-> id, what |-> what]

\* The status events of a dispatch as entries of the log.
Emitted(id, events) == [i \in 1..Len(events) |-> Did(id, events[i].status)]

\* The dispatch a call of amplifier_execute_tool left suspended at its await.
Suspended(before, after) ==
    CHOOSE d \in BagToSet(after) : CopiesIn(d, after) > CopiesIn(d, before)

\* A call of amplifier_execute_tool, followed: the events it emits, the
\* invocation of the execute function when it gets that far, and its
\* settlement when it settles without awaiting.
DispatchCall(name, inputJson) ==
    LET id == Len(started) + 1
    IN /\ Len(started) < MaxDispatches
       /\ ExecuteToolCall(name, inputJson)
       /\ IF toolsInFlight' # toolsInFlight
          THEN LET d == Suspended(toolsInFlight, toolsInFlight')
               IN /\ started' = Append(started, [pc |-> "awaiting", call |-> d])
                  /\ uiLog' = uiLog \o Emitted(id, d.events) \o <<Did(id, "invoked")>>
          ELSE /\ started' = Append(started, [pc |-> lastDispatch'.pc,
                                              call |-> lastDispatch'])
               /\ uiLog' = uiLog \o Emitted(id, lastDispatch'.events)
                               \o <<Did(id, lastDispatch'.pc)>>

\* The continuation of dispatch id once its execute function settled.
DispatchResume(id, outcome) ==
    /\ id <= Len(started)
    /\ started[id].pc = "awaiting"
    /\ outcome \in ExecuteOutcomes(toolRegistry[started[id].call.name].execute)
    /\ ExecuteToolResume(started[id].call, outcome)
    /\ started' = [started EXCEPT ![id] = [pc |-> lastDispatch'.pc,
                                            call |-> lastDispatch']]
    /\ uiLog' = uiLog
                 \o Emitted(id, SubSeq(lastDispatch'.events,
                                       Len(started[id].call.events) + 1,
                                       Len(lastDispatch'.events)))
                 \o <<Did(id, lastDispatch'.pc)>>

\* Every way the promise of an execute function settles.
AllExecuteOutcomes ==
    UNION {ExecuteOutcomes(toolRegistry[n].execute) : n \in DOMAIN toolRegistry}

Dispatch ==
    \E name \in FollowedNames, inputJson \in FollowedInputs :
        DispatchCall(name, inputJson)

DispatchSettles(id) == \E outcome \in AllExecuteOutcomes : DispatchResume(id, outcome)

DispatchSettlesAny == \E id \in 1..MaxDispatches : DispatchSettles(id)

(* ---------------------------------------------------------------------- *)
(* Message conversion, system prompt and schema                            *)
(* ---------------------------------------------------------------------- *)

\* The items of an array property, [] when it is absent (request.x || []).
OrEmpty(arr) == IF arr.defined THEN arr.items ELSE <<>>

\* a || b
Or(a, b) == IF Truthy(a) THEN a ELSE b

\* typeof c === "string" ? c : JSON.stringify(c), as it enters a string
\* concatenation.
TextOf(c) == IF TypeOf(c) = "string" THEN c.v ELSE StringOf(JSONstringify(c))

CallDesc(tc) ==
    "Called " \o StringOf(tc.name) \o " with "
        \o StringOf(JSONstringify(tc.arguments))

\* ConvertMessage passing every plain content through JSON.stringify,
\* strings included.
ConvertMessage_AlwaysStringify(m) ==
    IF m.role = Str("tool")
    THEN [role |-> Str("user"),
          content |-> Str("[Tool result from "
                          \o StringOf(Or(m.tool_call_id, Str("unknown")))
                          \o "]: " \o TextOf(m.content))]
    ELSE IF m.role = Str("assistant") /\ m.tool_calls.defined
            /\ Len(m.tool_calls.items) > 0
    THEN [role |-> Str("assistant"),
          content |-> Str(Join([i \in 1..Len(m.tool_calls.items) |->
                                   CallDesc(m.tool_calls.items[i])], "; "))]
    ELSE [role |-> m.role,
          content |-> JSONstringify(Or(m.content, Str("")))]

\* ConvertMessage handing every message on as it came.
ConvertMessage_Verbatim(m) == m

\* ConvertMessage describing only the first call of an assistant message.
ConvertMessage_FirstCallOnly(m) ==
    IF m.role = Str("tool")
    THEN [role |-> Str("user"),
          content |-> Str("[Tool result from "
                          \o StringOf(Or(m.tool_call_id, Str("unknown")))
                          \o "]: " \o TextOf(m.content))]
    ELSE IF m.role = Str("assistant") /\ m.tool_calls.defined
            /\ Len(m.tool_calls.items) > 0
    THEN [role |-> Str("assistant"),
          content |-> Str(CallDesc(m.tool_calls.items[1]))]
    ELSE [role |-> m.role,
          content |-> IF TypeOf(m.content) = "string" THEN m.content
                      ELSE JSONstringify(Or(m.content, Str("")))]

\* ConvertMessage concatenating the content of a tool result as it is,
\* without JSON.stringify for contents that are not strings.
ConvertMessage_RawToolContent(m) ==
    IF m.role = Str("tool")
    THEN [role |-> Str("user"),
          content |-> Str("[Tool result from "
                          \o StringOf(Or(m.tool_call_id, Str("unknown")))
                          \o "]: " \o StringOf(m.content))]
    ELSE IF m.role = Str("assistant") /\ m.tool_calls.defined
            /\ Len(m.tool_calls.items) > 0
    THEN [role |-> Str("assistant"),
          content |-> Str(Join([i \in 1..Len(m.tool_calls.items) |->
                                   CallDesc(m.tool_calls.items[i])], "; "))]
    ELSE [role |-> m.role,
          content |-> IF TypeOf(m.content) = "string" THEN m.content
                      ELSE JSONstringify(Or(m.content, Str("")))]

\* The callback of messages.map(...): one message of the request to one
\* message the backend accepts.
ConvertMessage(m) ==
    IF m.role = Str("tool")
    THEN [role |-> Str("user"),
          content |-> Str("[Tool result from "
                          \o StringOf(Or(m.tool_call_id, Str("unknown")))
                          \o "]: " \o TextOf(m.content))]
    ELSE IF m.role = Str("assistant") /\ m.tool_calls.defined
            /\ Len(m.tool_calls.items) > 0
    THEN [role |-> Str("assistant"),
          content |-> Str(Join([i \in 1..Len(m.tool_calls.items) |->
                                   CallDesc(m.tool_calls.items[i])], "; "))]
    ELSE [role |-> m.role,
          content |-> IF TypeOf(m.content) = "string" THEN m.content
                      ELSE JSONstringify(Or(m.content, Str("")))]

ConvertMessages(messages) ==
    [i \in 1..Len(messages) |-> ConvertMessage(messages[i])]

\* ToolDescription without the parameter schema of the tool.
ToolDescription_NoParameters(t) ==
    "- " \o StringOf(t.name) \o ": " \o StringOf(t.description)

ToolDescription(t) ==
    "- " \o StringOf(t.name) \o ": " \o StringOf(t.description)
        \o "\n  Parameters: " \o StringOf(JSONstringify(t.parameters))

ToolDescriptions(tools) ==
    Join([i \in 1..Len(tools) |-> ToolDescription(tools[i])], "\n")

SystemContent(tools) ==
    IF Len(tools) > 0
    THEN "You are a helpful assistant with access to tools. "
         \o "When the user's request requires using a tool, respond with a tool_call. "
         \o "When you can answer directly, respond with text. "
         \o "You MUST respond with valid JSON matching the required schema.\n\n"
         \o "Available tools:\n" \o ToolDescriptions(tools) \o "\n\n"
         \o "Response format:\n"
         \o "For text: {\"type\": \"text\", \"content\": \"your response\"}\n"
         \o "For tool use: {\"type\": \"tool_call\", \"name\": \"tool_name\", \"arguments\": {\"param\": \"value\"}}"
    ELSE "You are a helpful assistant. "
         \o "Respond with valid JSON: {\"type\": \"text\", \"content\": \"your response\"}"

\* { role: "system", content: systemContent }
SystemMessage(tools) ==
    [role |-> Str("system"), content |-> Str(SystemContent(tools))]

\* WithSystemMessage prepending in both cases.
WithSystemMessage_AlwaysPrepend(converted, tools) ==
    <<SystemMessage(tools)>> \o converted

\* Replace the leading system message of the converted history, or prepend one.
WithSystemMessage(converted, tools) ==
    LET sys == SystemMessage(tools)
    IN IF Len(converted) > 0 /\ converted[1].role = Str("system")
       THEN [converted EXCEPT ![1] = sys]
       ELSE <<sys>> \o converted

\* The text variant of the schema.
TextVariant ==
    "{\"type\":\"object\",\"properties\":{\"type\":{\"type\":\"string\",\"const\":\"text\"},"
    \o "\"content\":{\"type\":\"string\"}},\"required\":[\"type\",\"content\"]}"

\* An element of an array under JSON.stringify: undefined becomes null.
ElementText(x) ==
    IF JSONstringify(x).t = "undefined" THEN "null" ELSE JSONstringify(x).v

\* The tool_call variant of the schema, its enum listing tools.map(t => t.name).
ToolCallVariant(tools) ==
    "{\"type\":\"object\",\"properties\":{\"type\":{\"type\":\"string\",\"const\":\"tool_call\"},"
    \o "\"name\":{\"type\":\"string\",\"enum\":"
    \o JSONarray([i \in 1..Len(tools) |-> ElementText(tools[i].name)])
    \o "},\"arguments\":{\"type\":\"object\"}},"
    \o "\"required\":[\"type\",\"name\",\"arguments\"]}"

\* buildToolCallSchema listing the name of the first tool only.
buildToolCallSchema_FirstNameOnly(tools) ==
    "{\"oneOf\":" \o JSONarray(<<TextVariant, ToolCallVariant(<<tools[1]>>)>>) \o "}"

buildToolCallSchema(tools) ==
    "{\"oneOf\":" \o JSONarray(<<TextVariant, ToolCallVariant(tools)>>) \o "}"

\* SchemaFor building the two-variant schema whatever the tools are.
SchemaFor_AlwaysToolCall(tools) == buildToolCallSchema(tools)

\* The schema chosen for a request.
SchemaFor(tools) ==
    IF Len(tools) > 0 THEN buildToolCallSchema(tools) ELSE TextVariant

\* completionParams for a parsed request.
CompletionParams(request) ==
    LET tools == OrEmpty(request.tools)
    IN [stream |-> FALSE,
        messages |-> WithSystemMessage(ConvertMessages(OrEmpty(request.messages)),
                                       tools),
        temperature |-> Or(request.temperature, Num("0.7")),
        max_tokens |-> Or(request.max_tokens, Num("2048")),
        response_format |-> [type |-> "json_object", schema |-> SchemaFor(tools)]]

(* ---------------------------------------------------------------------- *)
(* Building the parameters: the arrays the code creates and writes         *)
(* ---------------------------------------------------------------------- *)

SearchSpec == ToolSpec(Str("search"), Str("Search the web"), Obj("{\"x\":1}"))

\* The messages histories are made of: plain messages of every canonical
\* role, contents that are not strings, assistant messages with two and with
\* no tool calls, tool results with, with an empty and without a call id, a
\* system message that already carries the prompt generated for no tools,
\* and a role outside the canonical four.
MessageShapes ==
    {Msg(Str("system"), Str("sys"), Undef, Absent),
     Msg(Str("system"), Str(SystemContent(<<>>)), Undef, Absent),
     UserHi,
     Msg(Str("user"), Obj("{\"x\":1}"), Undef, Absent),
     Msg(Str("assistant"), Str("ok"), Undef, Absent),
     Msg(Str("assistant"), Str("thinking"), Undef,
         Items(<<Call(Str("echo"), Obj("{\"x\":1}")), Call(Str("search"), Obj("{}"))>>)),
     Msg(Str("assistant"), Null, Undef, Items(<<>>)),
     Msg(Str("tool"), Str("42"), Str("c1"), Absent),
     Msg(Str("tool"), Obj("{\"x\":1}"), Str("c1"), Absent),
     Msg(Str("tool"), Str("42"), Str(""), Absent),
     Msg(Str("function"), Str("42"), Undef, Absent)}

\* request.messages: absent, or a history of at most MaxMessages messages.
MessageArrays ==
    {Absent} \cup
    {Items(h) : h \in UNION {[1..n -> MessageShapes] : n \in 0..MaxMessages}}

\* request.tools: absent, empty, one tool, two tools.
ToolArrays ==
    {Absent, Items(<<>>), Items(<<EchoSpec>>), Items(<<SearchSpec, EchoSpec>>)}

\* request.temperature and request.max_tokens: absent, null, zero, positive.
Samplings ==
    {<<Undef, Undef>>, <<Null, Null>>, <<Num("0"), Num("0")>>,
     <<Num("0.2"), Num("100")>>}

\* The values JSON.parse(requestJson) yields for well-formed requests.
Requests ==
    {Request(m, t, s[1], s[2]) :
        m \in MessageArrays, t \in ToolArrays, s \in Samplings}

\* Requests the kernel sends after an earlier one.
LaterRequests ==
    {Request(Items(<<UserHi>>), Absent, Undef, Undef),
     Request(Items(<<UserHi>>), Items(<<SearchSpec>>), Undef, Undef),
     Request(Absent, Items(<<EchoSpec>>), Num("0"), Num("0"))}

\* The arrays of a call, before it runs: the caller's messages array, at
\* reference 1, when the request has one.
CallerArrays(req) ==
    IF req.messages.defined THEN <<req.messages.items>> ELSE <<>>

\* A new array holding arr: the arrays with it, and its reference.
Alloc(heap, arr) == [heap |-> Append(heap, arr), ref |-> Len(heap) + 1]

\* request.messages || []: the caller's array, or a new empty one.
MessagesOrEmpty(heap, req) ==
    IF req.messages.defined THEN [heap |-> heap, ref |-> 1] ELSE Alloc(heap, <<>>)

\* MapMessages writing the converted messages over the array it read.
MapMessages_InPlace(heap, ref) ==
    [heap |-> [heap EXCEPT ![ref] = ConvertMessages(heap[ref])], ref |-> ref]

\* messages = messages.map(...): Array.prototype.map fills a new array.
MapMessages(heap, ref) == Alloc(heap, ConvertMessages(heap[ref]))

\* The replace-or-prepend step: slice() copies the array before its first
\* element is assigned; concat() builds a new array.
PlaceSystemMessage(heap, ref, tools) ==
    IF Len(heap[ref]) > 0 /\ heap[ref][1].role = Str("system")
    THEN LET copy == Alloc(heap, heap[ref])
         IN [heap |-> [copy.heap EXCEPT ![copy.ref][1] = SystemMessage(tools)],
             ref |-> copy.ref]
    ELSE Alloc(heap, <<SystemMessage(tools)>> \o heap[ref])

NoParams ==
    [stream |-> FALSE, messages |-> <<>>, temperature |-> Undef,
     max_tokens |-> Undef, response_format |-> [type |-> "", schema |-> ""]]

\* amplifier_llm_complete from "var messages = request.messages || []" to
\* the completionParams literal, for the parsed request of the state.
BuildParams ==
    LET start == MessagesOrEmpty(arrays, callRequest)
        mapped == MapMessages(start.heap, start.ref)
        placed == PlaceSystemMessage(mapped.heap, mapped.ref, OrEmpty(callRequest.tools))
    IN /\ callMessages = 0
       /\ arrays' = placed.heap
       /\ callMessages' = placed.ref
       /\ completionParams' = CompletionParams(callRequest)
       /\ UNCHANGED <<callRequest, toolVars, llmVars, logVars>>

\* The kernel calls again, with another request.
NewRequest ==
    /\ callMessages # 0
    /\ \E req \in LaterRequests :
          /\ callRequest' = req
          /\ arrays' = CallerArrays(req)
    /\ callMessages' = 0
    /\ completionParams' = NoParams
    /\ UNCHANGED <<toolVars, llmVars, logVars>>

(* ---------------------------------------------------------------------- *)
(* window.amplifier_llm_complete                                           *)
(* ---------------------------------------------------------------------- *)

\* Texts offered as requestJson: the requests of RequestProps, a text that is
\* not JSON, and the JSON text null.
RequestJsons == DOMAIN RequestProps \cup {"not json", "null"}

\* Values of completion.choices[0].message.content.
BackendContents ==
    {Str(s) : s \in DOMAIN ObjectProps \ {"{\"x\":1}", "{\"success\":true}"}}
    \cup {Str(""), Null, Str("Hello there"), Str("null"), Str("5")}

\* Messages of the errors the backend call throws.
BackendMessages ==
    {"boom", "",
     "Got outputMessage: Hello there",
     "Error encountered when parsing outputMessage for function calling. Got outputMessage: Hello there Got error: SyntaxError",
     "parsing outputMessage. Got outputMessage:  Hello there\n",
     "parsing outputMessage Got outputMessage: a Got error: b Got outputMessage: c Got error: d",
     "parsing outputMessage Got error: x Got outputMessage: y",
     "parsing outputMessage Got outputMessage: Got error: z",
     "parsing outputMessage failed"}

\* Values the backend call throws or rejects with.
BackendThrown == {Err(m) : m \in BackendMessages} \cup {Str("boom"), Null}

\* The ways the promise of webllmEngine.chat.completions.create settles:
\* with a completion whose first choice has the given content, with a
\* completion without choices, or with a thrown value.
BackendOutcomes ==
    {Fulfilled(c) : c \in BackendContents}
    \cup {[kind |-> "nochoice", val |-> Undef]}
    \cup {Rejected(e) : e \in BackendThrown}

\* Math.random().toString(36).substr(2, 9): empty when the draw is 0.
IdSuffixes == {"", "k3j9x2m1q"}

\* The value a completion call hands to JSON.stringify before it returns:
\* a response {role, content, tool_calls}, an {error} object, or nothing at
\* all; "thrown" stands for a call that threw instead of returning.
ResponseValue(content, calls) ==
    [shape |-> "response", content |-> content, calls |-> calls, error |-> Undef]
ErrorValue(msg) ==
    [shape |-> "error", content |-> Undef, calls |-> <<>>, error |-> Str(msg)]
NoValue ==
    [shape |-> "undefined", content |-> Undef, calls |-> <<>>, error |-> Undef]
ThrownValue(e) ==
    [shape |-> "thrown", content |-> Undef, calls |-> <<>>, error |-> e]

\* A tool call of a response.
ToolCall(id, name, arguments) == [id |-> id, name |-> name, arguments |-> arguments]

ToolCallText(tc) ==
    JSONobject(<<Member("id", Str(tc.id)), Member("name", tc.name),
                 Member("arguments", tc.arguments)>>)

\* JSON.stringify({ role: "assistant", content: content, tool_calls: calls })
ResponseText(content, calls) ==
    JSONobject(<<Member("role", Str("assistant")),
                 Member("content", content),
                 Member("tool_calls",
                        Obj(JSONarray([i \in 1..Len(calls) |->
                                          ToolCallText(calls[i])])))>>)

\* What the caller receives for a value: its JSON text, undefined when the
\* function ran off its end, the thrown value when it threw.
ResultOf(value) ==
    CASE value.shape = "response" -> Str(ResponseText(value.content, value.calls))
      [] value.shape = "error" -> Str(JSONobject(<<Member("error", value.error)>>))
      [] value.shape = "undefined" -> Undef
      [] OTHER -> value.error

NoLlm ==
    [pc |-> "none", requestJson |-> "", engine |-> FALSE, backendCalls |-> 0,
     backend |-> NoOutcome, value |-> NoValue, result |-> Undef]

\* A settled call: rejected when it threw, resolved otherwise.
Completed(requestJson, engine, backendCalls, backend, value) ==
    [pc |-> IF value.shape = "thrown" THEN "rejected" ELSE "resolved",
     requestJson |-> requestJson, engine |-> engine,
     backendCalls |-> backendCalls, backend |-> backend, value |-> value,
     result |-> ResultOf(value)]

\* NotInitialized with the text of the earlier revision of the bridge.
NotInitialized_EngineNotLoaded == ErrorValue("WebLLM engine not loaded")

\* The object returned while the engine handle is null.
NotInitialized == ErrorValue("WebLLM not initialized")

GateMarker == "parsing outputMessage"
StartMarker == "Got outputMessage: "
EndMarker == "Got error:"

\* MatchOutputMessage with a greedy group: up to the last end marker.
MatchOutputMessage_Greedy(m) ==
    IF Occurrences(m, StartMarker) = {} THEN [matched |-> FALSE, group |-> ""]
    ELSE LET from == Min(Occurrences(m, StartMarker)) + Len(StartMarker)
             ends == {j \in Occurrences(m, EndMarker) : j >= from}
             to == IF ends = {} THEN Len(m) ELSE Max(ends) - 1
         IN [matched |-> TRUE, group |-> SubSeq(m, from, to)]

\* e.message.match(/Got outputMessage: ([\s\S]*?)(?:Got error:|$)/): the
\* leftmost start marker, then the shortest text up to an end marker or,
\* failing that, up to the end of the message.
MatchOutputMessage(m) ==
    IF Occurrences(m, StartMarker) = {} THEN [matched |-> FALSE, group |-> ""]
    ELSE LET from == Min(Occurrences(m, StartMarker)) + Len(StartMarker)
             ends == {j \in Occurrences(m, EndMarker) : j >= from}
             to == IF ends = {} THEN Len(m) ELSE Min(ends) - 1
         IN [matched |-> TRUE, group |-> SubSeq(m, from, to)]

\* GenericError without the "Error: " prefix.
GenericError_NoPrefix(e) == ResponseValue(Str(StringOf(Message(e))), <<>>)

\* The last return of the catch block: "Error: " + e.message.
GenericError(e) == ResponseValue(Str("Error: " \o StringOf(Message(e))), <<>>)

\* The catch block. Reading .message of null or undefined throws inside the
\* catch block, which rejects the promise of the call.
CatchLlm(e) ==
    IF IsNullish(e)
    THEN ThrownValue(TypeErr("Cannot read properties of " \o e.t))
    ELSE IF Truthy(Message(e)) /\ Includes(Message(e).v, GateMarker)
    THEN LET match == MatchOutputMessage(Message(e).v)
             text == IF match.matched THEN Trim(match.group)
                     ELSE "I encountered an error processing your request."
         IN ResponseValue(Str(text), <<>>)
    ELSE GenericError(e)

\* ToolCallResponse with arguments ?? {} in place of arguments || {}.
ToolCallResponse_NullishDefault(output, id) ==
    ResponseValue(Str(""),
        <<ToolCall(id, Prop(output, "name"),
                   IF IsNullish(Prop(output, "arguments")) THEN Obj("{}")
                   ELSE Prop(output, "arguments"))>>)

\* The return of the tool_call branch.
ToolCallResponse(output, id) ==
    ResponseValue(Str(""),
        <<ToolCall(id, Prop(output, "name"),
                   Or(Prop(output, "arguments"), Obj("{}")))>>)

\* TextResponse with content ?? "" in place of content || "".
TextResponse_NullishDefault(output) ==
    ResponseValue(IF IsNullish(Prop(output, "content")) THEN Str("")
                  ELSE Prop(output, "content"), <<>>)

\* The return of the text branch.
TextResponse(output) == ResponseValue(Or(Prop(output, "content"), Str("")), <<>>)

\* message.content || "{}"
ContentText(content) == IF Truthy(content) THEN content.v ELSE "{}"

\* The call up to "await webllmEngine.chat.completions.create(params)".
LlmCompleteCall(requestJson) ==
    LET request == JSONparse(requestJson)
    IN /\ BagCardinality(llmInFlight) < MaxLlmInFlight
       /\ UNCHANGED <<webllmEngine, toolVars, paramVars, logVars>>
       /\ IF ~webllmEngine
          THEN /\ lastLlm' = Completed(requestJson, FALSE, 0, NoOutcome,
                                       NotInitialized)
               /\ UNCHANGED llmInFlight
          ELSE IF request.threw
          THEN /\ lastLlm' = Completed(requestJson, TRUE, 0, NoOutcome,
                                       CatchLlm(request.val))
               /\ UNCHANGED llmInFlight
          ELSE IF IsNullish(request.val)
          THEN \* request.messages of null
               /\ lastLlm' =
                    Completed(requestJson, TRUE, 0, NoOutcome,
                        CatchLlm(TypeErr("Cannot read properties of null (reading 'messages')")))
               /\ UNCHANGED llmInFlight
          ELSE /\ llmInFlight' = llmInFlight (+)
                    SetToBag({[requestJson |-> requestJson,
                               params |-> CompletionParams(RequestProps[requestJson])]})
               /\ UNCHANGED lastLlm

\* The value the rest of the call produces once the promise of the backend
\* call settled; suffix is the random part of a generated call id.
LlmCompleteValue(backend, suffix) ==
    LET parsed == JSONparse(ContentText(backend.val))
        output == parsed.val
        type == Prop(output, "type")
    IN IF backend.kind = "rejected" THEN CatchLlm(backend.val)
       ELSE IF backend.kind = "nochoice"
       THEN CatchLlm(TypeErr("Cannot read properties of undefined (reading 'message')"))
       ELSE IF parsed.threw THEN CatchLlm(parsed.val)
       ELSE IF IsNullish(output)
       THEN CatchLlm(TypeErr("Cannot read properties of null (reading 'type')"))
       ELSE IF type = Str("tool_call") THEN ToolCallResponse(output, "call_" \o suffix)
       ELSE IF type = Str("text") \/ ~Truthy(type) THEN TextResponse(output)
       ELSE NoValue  \* neither branch returns

\* LlmCompleteResume issuing the backend call a second time when the
\* first one was rejected.
LlmCompleteResume_Retry(c, backend, suffix) ==
    /\ llmInFlight' = llmInFlight (-) SetToBag({c})
    /\ UNCHANGED <<webllmEngine, toolVars, paramVars, logVars>>
    /\ lastLlm' = Completed(c.requestJson, TRUE,
                            IF backend.kind = "rejected" THEN 2 ELSE 1, backend,
                            LlmCompleteValue(backend, suffix))

LlmCompleteResume(c, backend, suffix) ==
    /\ llmInFlight' = llmInFlight (-) SetToBag({c})
    /\ UNCHANGED <<webllmEngine, toolVars, paramVars, logVars>>
    /\ lastLlm' = Completed(c.requestJson, TRUE, 1, backend,
                            LlmCompleteValue(backend, suffix))

\* initWebLLM clearing the handle when it fails.
initWebLLM_ResetsOnFailure(gpu, created) ==
    /\ webllmEngine' = (gpu /\ created)
    /\ UNCHANGED <<llmInFlight, lastLlm, toolVars, paramVars, logVars>>

\* initWebLLM(modelId, onProgress): throws without WebGPU or when the engine
\* cannot be created, and sets the handle otherwise.
initWebLLM(gpu, created) ==
    /\ webllmEngine' = IF gpu /\ created THEN TRUE ELSE webllmEngine
    /\ UNCHANGED <<llmInFlight, lastLlm, toolVars, paramVars, logVars>>

InitEngine == \E gpu \in BOOLEAN, created \in BOOLEAN : initWebLLM(gpu, created)

LlmComplete == \E requestJson \in RequestJsons : LlmCompleteCall(requestJson)

LlmCompleteSettles ==
    \E c \in BagToSet(llmInFlight) :
        \E backend \in BackendOutcomes, suffix \in IdSuffixes :
            LlmCompleteResume(c, backend, suffix)

(* ---------------------------------------------------------------------- *)
(* Specifications                                                          *)
(* ---------------------------------------------------------------------- *)

Init ==
    /\ toolRegistry = registerTools(<<>>)
    /\ toolsInFlight = EmptyBag
    /\ lastDispatch = NoDispatch
    /\ webllmEngine = FALSE
    /\ llmInFlight = EmptyBag
    /\ lastLlm = NoLlm
    /\ callRequest = Request(Absent, Absent, Undef, Undef)
    /\ arrays = <<>>
    /\ callMessages = 0
    /\ completionParams = NoParams
    /\ started = <<>>
    /\ uiLog = <<>>

\* A call of amplifier_llm_complete that parsed its request, about to build
\* the parameters of the backend call.
InitParams ==
    /\ toolRegistry = registerTools(<<>>)
    /\ toolsInFlight = EmptyBag
    /\ lastDispatch = NoDispatch
    /\ webllmEngine = TRUE
    /\ llmInFlight = EmptyBag
    /\ lastLlm = NoLlm
    /\ callRequest \in Requests
    /\ arrays = CallerArrays(callRequest)
    /\ callMessages = 0
    /\ completionParams = NoParams
    /\ started = <<>>
    /\ uiLog = <<>>

NextParams ==
    \/ BuildParams
    \/ NewRequest

NextDispatch ==
    \/ Dispatch
    \/ DispatchSettlesAny

NextTool ==
    \/ ExecuteTool
    \/ ExecuteToolSettles

NextLlm ==
    \/ InitEngine
    \/ LlmComplete
    \/ LlmCompleteSettles

Next == NextTool \/ NextLlm

\* The tool dispatcher.
SpecTool == Init /\ [][NextTool]_vars

\* The completion adapter.
SpecLlm == Init /\ [][NextLlm]_vars

\* The parameters the completion adapter builds from a request.
SpecParams == InitParams /\ [][NextParams]_vars

\* The tool dispatcher, each dispatch followed from its call on.
SpecDispatch == Init /\ [][NextDispatch]_vars

\* The same, where the continuation of a dispatch runs once the promise of
\* its execute function has settled.
SpecDispatchFair ==
    /\ Init
    /\ [][NextDispatch]_vars
    /\ \A id \in 1..MaxDispatches : WF_vars(DispatchSettles(id))

\* The whole bridge.
Spec == Init /\ [][Next]_vars

(* ---------------------------------------------------------------------- *)
(* Properties of the tool dispatcher                                       *)
(* ---------------------------------------------------------------------- *)

Statuses(events) == [i \in 1..Len(events) |-> events[i].status]

Settled(d) == d.pc \in {"resolved", "rejected"}

\* C1: a dispatch whose name is not a key registered by registerTools (any
\* string, the names of built-in object properties included) resolves to the
\* JSON text of {success:false, error:"Unknown tool: "+name} and emits no
\* status event, whatever inputJson is.
C1_UnknownToolForEveryUnregisteredName ==
    (Settled(lastDispatch) /\ lastDispatch.name \notin DOMAIN toolRegistry)
        => /\ lastDispatch.pc = "resolved"
           /\ lastDispatch.result =
                Str(ErrorEnvelope("Unknown tool: " \o lastDispatch.name))
           /\ lastDispatch.events = <<>>

\* C2: a dispatch to a registered tool that emitted "running" emitted exactly
\* two status events, "running" and then one terminal event, whatever the
\* execute function did.
C2_RunningThenOneTerminalEvent ==
    (/\ Settled(lastDispatch)
     /\ lastDispatch.name \in DOMAIN toolRegistry
     /\ \E i \in 1..Len(lastDispatch.events) :
            lastDispatch.events[i].status = "running")
        => \/ Statuses(lastDispatch.events) = <<"running", "complete">>
           \/ Statuses(lastDispatch.events) = <<"running", "error">>

\* The execute function of the last dispatch threw or rejected with an Error
\* object.
ExecuteThrewError ==
    /\ Settled(lastDispatch)
    /\ lastDispatch.name \in DOMAIN toolRegistry
    /\ lastDispatch.outcome.kind = "rejected"
    /\ IsErrorObj(lastDispatch.outcome.val)

RunningErrorWithMessage ==
    /\ lastDispatch.pc = "resolved"
    /\ Statuses(lastDispatch.events) = <<"running", "error">>
    /\ lastDispatch.result = Str(ErrorEnvelope(lastDispatch.outcome.val.v))

\* C3 as stated: an execute function that throws or rejects with an error
\* carrying message m makes the dispatch emit "running" then "error" and
\* resolve to the JSON text of {success:false, error:m}, for every m.
C3_ThrownMessageReportedForEveryMessage ==
    ExecuteThrewError => RunningErrorWithMessage

\* C3 amended: the same for every non-empty message m; with an empty message
\* the error field is String(e) instead.
C3_ThrownMessageReported ==
    /\ (ExecuteThrewError /\ lastDispatch.outcome.val.v # "")
            => RunningErrorWithMessage
    /\ (ExecuteThrewError /\ lastDispatch.outcome.val.v = "")
            => /\ lastDispatch.pc = "resolved"
               /\ Statuses(lastDispatch.events) = <<"running", "error">>
               /\ lastDispatch.result =
                    Str(ErrorEnvelope(StringOf(lastDispatch.outcome.val)))

C3_Witness ==
    /\ ExecuteThrewError
    /\ lastDispatch.outcome.val = Err("boom")
    /\ lastDispatch.result = Str("{\"success\":false,\"error\":\"boom\"}")

\* C11: every dispatch resolves, never rejects, with a JSON string, for
\* every name, every inputJson (text that is not JSON included) and every
\* outcome of the execute function (returns, throws an Error, throws a value
\* that is no Error).
C11_DispatchAlwaysResolvesWithString ==
    Settled(lastDispatch)
        => /\ lastDispatch.pc = "resolved"
           /\ lastDispatch.result.t = "string"

\* The execute function of the last dispatch resolved.
ExecuteResolved ==
    /\ Settled(lastDispatch)
    /\ lastDispatch.name \in DOMAIN toolRegistry
    /\ lastDispatch.outcome.kind = "fulfilled"

C28_TerminalOnlyAfterRunning ==
    Settled(lastDispatch)
        => \A i \in 1..Len(lastDispatch.events) :
              lastDispatch.events[i].status \in {"complete", "error"}
                 => \E k \in 1..(i - 1) : lastDispatch.events[k].status = "running"

\* The execute functions in flight belong to registered tools and were
\* handed the value inputJson parses to.
InvokedWithParsedInput ==
    \A d \in BagToSet(toolsInFlight) :
        /\ d.name \in DOMAIN toolRegistry
        /\ ~JSONparse(d.inputJson).threw
        /\ d.input = JSONparse(d.inputJson).val

\* C29: the execute function of a registered tool is invoked exactly once
\* per dispatch whose inputJson parses, with the parsed input, and not at
\* all when the name is unknown or inputJson is not valid JSON; a dispatch
\* that passed the lookup with an inputJson that is not valid JSON resolves
\* to {success:false, error:<message of the parse error>}.
C29_InvokedOnceWithParsedInput ==
    /\ InvokedWithParsedInput
    /\ Settled(lastDispatch)
         => LET input == JSONparse(lastDispatch.inputJson)
            IN /\ lastDispatch.invoked =
                    IF lastDispatch.name \in DOMAIN toolRegistry /\ ~input.threw
                    THEN 1 ELSE 0
               /\ (Truthy(RegistryGet(toolRegistry, lastDispatch.name)) /\ input.threw)
                    => /\ lastDispatch.pc = "resolved"
                       /\ lastDispatch.result =
                            Str(ErrorEnvelope(Message(input.val).v))

\* A dispatch to web_research with an inputJson that is not valid JSON: it
\* resolved to the parse error without invoking the execute function.
C29_Witness ==
    /\ Settled(lastDispatch)
    /\ lastDispatch.name = "web_research"
    /\ lastDispatch.inputJson = "not json"
    /\ lastDispatch.invoked = 0
    /\ lastDispatch.result = Str(ErrorEnvelope("Unexpected token in JSON"))

(* ---------------------------------------------------------------------- *)
(* Properties of dispatches in flight together                             *)
(* ---------------------------------------------------------------------- *)

\* What dispatch id did, in the order of the log.
DoneBy(id) == SelectSeq(uiLog, LAMBDA e : e.id = id)

\* The stage an entry belongs to: the "running" event, the invocation of
\* the execute function, a terminal event, the settlement.
StageOf(what) ==
    CASE what = "running" -> 1
      [] what = "invoked" -> 2
      [] what \in {"complete", "error"} -> 3
      [] what \in {"resolved", "rejected"} -> 4

\* The stages of p that occur in it.
StagesIn(p) == {StageOf(p[i].what) : i \in 1..Len(p)}

\* The entries of one dispatch are in stage order, with one "running", one
\* invocation and one settlement at most, and none of them is missing: an
\* invocation has its "running" before it, a settlement after an
\* invocation has a terminal event before it, and the status events are
\* those the dispatch emitted.
OwnOrderKept(id) ==
    LET p == DoneBy(id)
    IN /\ \A i, j \in 1..Len(p) : i < j => StageOf(p[i].what) <= StageOf(p[j].what)
       /\ \A i, j \in 1..Len(p) :
             (i # j /\ StageOf(p[i].what) = StageOf(p[j].what))
                => StageOf(p[i].what) = 3
       /\ 2 \in StagesIn(p) => 1 \in StagesIn(p)
       /\ ({2, 4} \subseteq StagesIn(p)) => 3 \in StagesIn(p)
       /\ 4 \in StagesIn(p) <=> started[id].pc \in {"resolved", "rejected"}
       /\ SelectSeq([i \in 1..Len(p) |-> p[i].what],
                    LAMBDA w : w \in {"running", "complete", "error"})
            = Statuses(started[id].call.events)

\* C22: under every interleaving of dispatches in flight together, several
\* dispatches of the same tool included, the events of each dispatch stay
\* ordered: its "running" event, then the invocation of its execute
\* function, then its terminal event, then its settlement; none of them is
\* reordered or dropped.
C22_OwnEventsOrderedUnderInterleaving ==
    \A id \in 1..Len(started) : OwnOrderKept(id)

\* Two dispatches of web_research in flight together, the second settling
\* first.
C22_Witness ==
    /\ Len(started) = 2
    /\ started[1].call.name = "web_research"
    /\ started[2].call.name = "web_research"
    /\ [i \in 1..Len(uiLog) |-> <<uiLog[i].id, uiLog[i].what>>] =
         << <<1, "running">>, <<1, "invoked">>, <<2, "running">>, <<2, "invoked">>,
            <<2, "complete">>, <<2, "resolved">>, <<1, "error">>, <<1, "resolved">> >>

\* Dispatch id has settled.
HasSettled(id) == started[id].pc \in {"resolved", "rejected"}

\* Dispatch id ended in "Unknown tool" or in a failure of its execute
\* function.
HasFailed(id) ==
    /\ HasSettled(id)
    /\ \/ started[id].call.result =
            Str(ErrorEnvelope("Unknown tool: " \o started[id].call.name))
       \/ started[id].call.outcome.kind = "rejected"

\* Dispatch id, to a registered tool with an input that parses, invoked the
\* execute function; once it settled it did so once, and resolved to the
\* result of the execute function when that is a JSON value.
ServedByExecutor(id) ==
    LET call == started[id].call
    IN (call.name \in DOMAIN registerTools(<<>>) /\ ~JSONparse(call.inputJson).threw)
         => /\ \E i \in 1..Len(uiLog) : uiLog[i] = Did(id, "invoked")
            /\ HasSettled(id) => call.invoked = 1
            /\ (/\ HasSettled(id)
                /\ call.outcome.kind = "fulfilled"
                /\ call.outcome.val.t = "object")
                 => /\ call.pc = "resolved"
                    /\ call.result = Str(call.outcome.val.v)
                    /\ Statuses(call.events) = <<"running", "complete">>

\* C23: a dispatch that ends in "Unknown tool" or in an executor failure
\* leaves the registry as registerTools made it, and every dispatch to a
\* registered tool, later or in flight at the same time, still invokes its
\* execute function and resolves to its result.
C23_FailureLeavesOtherDispatchesAlone ==
    /\ toolRegistry = registerTools(<<>>)
    /\ \A id \in 1..Len(started) : ServedByExecutor(id)

\* A dispatch in flight while a dispatch to an unknown tool fails, and
\* resolving to the result of its execute function afterwards.
C23_Witness ==
    /\ Len(started) = 2
    /\ HasFailed(2)
    /\ started[2].call.name = "frobnicate"
    /\ started[1].call.name = "code_analysis"
    /\ HasSettled(1)
    /\ started[1].call.result = Str("{\"success\":true}")
    /\ uiLog[Len(uiLog)] = Did(1, "resolved")

\* The execute function of dispatch id is in flight.
Awaiting(id) == id <= Len(started) /\ started[id].pc = "awaiting"

\* Dispatch id resolved, with a terminal status event in the log before.
ResolvedAfterTerminal(id) ==
    /\ id <= Len(started)
    /\ started[id].pc = "resolved"
    /\ \E i, j \in 1..Len(uiLog) :
          /\ i < j
          /\ uiLog[i].id = id /\ uiLog[i].what \in {"complete", "error"}
          /\ uiLog[j] = Did(id, "resolved")

\* C26: every dispatch to a registered tool whose execute function settles
\* eventually resolves, having emitted a terminal status event before; none
\* stays running once its execute function has settled.
C26_DispatchEventuallyResolves ==
    \A id \in 1..MaxDispatches : Awaiting(id) ~> ResolvedAfterTerminal(id)

\* The status an observer of onToolUpdate that keeps the most recent status
\* per tool name has recorded for name, "none" before the first one.
RecordedStatus(name) ==
    LET seen == {i \in 1..Len(uiLog) :
                    /\ uiLog[i].what \in {"running", "complete", "error"}
                    /\ started[uiLog[i].id].call.name = name}
        last == CHOOSE i \in seen : \A j \in seen : j <= i
    IN IF seen = {} THEN "none" ELSE uiLog[last].what

\* C32: whenever at least one dispatch of a tool is in flight, its execute
\* function started and not settled, the status recorded for the tool is
\* "running", under every interleaving of dispatches of the same tool.
C32_RecordedRunningWhileInFlight ==
    \A id \in 1..Len(started) :
        Awaiting(id) => RecordedStatus(started[id].call.name) = "running"

(* ---------------------------------------------------------------------- *)
(* Properties of the completion adapter                                    *)
(* ---------------------------------------------------------------------- *)

\* A CompletionResponse {role:"assistant", content:string, tool_calls:seq}.
IsCompletionResponse(value) ==
    value.shape = "response" /\ value.content.t = "string"

\* An {error:string} object.
IsErrorObject(value) == value.shape = "error" /\ value.error.t = "string"

\* C4: every call of amplifier_llm_complete resolves, never rejects, with a
\* string that decodes to a CompletionResponse or to an {error:string}
\* object, for every requestJson, initialization state and backend behaviour.
C4_AlwaysResolvesWellFormed ==
    Settled(lastLlm)
        => /\ lastLlm.pc = "resolved"
           /\ lastLlm.result.t = "string"
           /\ IsCompletionResponse(lastLlm.value) \/ IsErrorObject(lastLlm.value)

\* The backend of the last call returned a content that parses to a JSON
\* object; BackendOutput is that object.
BackendOutput == JSONparse(ContentText(lastLlm.backend.val)).val

BackendReturnedObject ==
    /\ Settled(lastLlm)
    /\ lastLlm.backend.kind = "fulfilled"
    /\ ~JSONparse(ContentText(lastLlm.backend.val)).threw
    /\ BackendOutput.t = "object"

\* C5: when the backend content parses as JSON but its type is neither
\* "text", "tool_call" nor missing, the call resolves to a CompletionResponse
\* with role "assistant", a string content and tool_calls = [].
C5_OtherTypeRecovers ==
    (/\ BackendReturnedObject
     /\ Prop(BackendOutput, "type") \notin {Str("text"), Str("tool_call"), Undef})
        => /\ lastLlm.pc = "resolved"
           /\ IsCompletionResponse(lastLlm.value)
           /\ lastLlm.value.calls = <<>>

CalledUninitialized == Settled(lastLlm) /\ ~lastLlm.engine

\* C6 as stated: a call made while the backend session is not initialized
\* resolves to the JSON text of {error:"Backend not initialized"}.
C6_BackendNotInitializedText ==
    CalledUninitialized
        => /\ lastLlm.pc = "resolved"
           /\ lastLlm.result = Str("{\"error\":\"Backend not initialized\"}")

\* C6 amended: a call made while the backend session is not initialized
\* resolves, without throwing and without a backend call, to the JSON text of
\* {error:"WebLLM not initialized"}, whatever requestJson is.
C6_NotInitializedError ==
    CalledUninitialized
        => /\ lastLlm.pc = "resolved"
           /\ lastLlm.result = Str("{\"error\":\"WebLLM not initialized\"}")
           /\ lastLlm.backendCalls = 0

C6_Witness ==
    /\ CalledUninitialized
    /\ lastLlm.requestJson = "not json"
    /\ lastLlm.result.t = "string"

BackendReturnedToolCall ==
    BackendReturnedObject /\ Prop(BackendOutput, "type") = Str("tool_call")

\* The response carries content "" and exactly one tool call, with a
\* non-empty id, the name of the output and the given arguments.
OneToolCallWith(arguments) ==
    /\ lastLlm.pc = "resolved"
    /\ lastLlm.value.shape = "response"
    /\ lastLlm.value.content = Str("")
    /\ Len(lastLlm.value.calls) = 1
    /\ lastLlm.value.calls[1].id # ""
    /\ lastLlm.value.calls[1].name = Prop(BackendOutput, "name")
    /\ lastLlm.value.calls[1].arguments = arguments

\* C7 as stated: a backend output {"type":"tool_call","name":n,"arguments":a}
\* yields content "" and exactly one tool call {id, name:n, arguments:a} with
\* a non-empty id; absent (or null) arguments become {}.
C7_ToolCallKeepsArguments ==
    BackendReturnedToolCall
        => OneToolCallWith(IF IsNullish(Prop(BackendOutput, "arguments"))
                           THEN Obj("{}")
                           ELSE Prop(BackendOutput, "arguments"))

\* C7 amended: the same with arguments a when a is truthy (every object is);
\* arguments that are absent or falsy (null, 0, false, "") become {}.
C7_ToolCallResponse ==
    BackendReturnedToolCall
        => OneToolCallWith(IF Truthy(Prop(BackendOutput, "arguments"))
                           THEN Prop(BackendOutput, "arguments")
                           ELSE Obj("{}"))

C7_Witness ==
    /\ BackendReturnedToolCall
    /\ Prop(BackendOutput, "arguments") = Obj("{\"x\":1}")
    /\ lastLlm.result =
        Str("{\"role\":\"assistant\",\"content\":\"\",\"tool_calls\":[{\"id\":\"call_k3j9x2m1q\",\"name\":\"echo\",\"arguments\":{\"x\":1}}]}")

BackendReturnedText ==
    BackendReturnedObject /\ Prop(BackendOutput, "type") \in {Str("text"), Undef}

TextResponseWith(content) ==
    /\ lastLlm.pc = "resolved"
    /\ lastLlm.value = ResponseValue(content, <<>>)
    /\ lastLlm.result = Str(ResponseText(content, <<>>))

\* C8 as stated: a backend output whose type is "text" or missing yields
\* {role:"assistant", content:c, tool_calls:[]} with c the content of the
\* output, "" when it has none (or null); an empty backend content counts
\* as {}.
C8_TextKeepsContent ==
    BackendReturnedText
        => TextResponseWith(IF IsNullish(Prop(BackendOutput, "content"))
                            THEN Str("")
                            ELSE Prop(BackendOutput, "content"))

\* C8 amended: the same with c the content of the output when it is truthy,
\* and "" when the content is absent or falsy (null, 0, false, "").
C8_TextResponse ==
    /\ BackendReturnedText
            => TextResponseWith(IF Truthy(Prop(BackendOutput, "content"))
                                THEN Prop(BackendOutput, "content")
                                ELSE Str(""))
    /\ (Settled(lastLlm) /\ lastLlm.backend = Fulfilled(Str("")))
            => /\ BackendOutput = Obj("{}")
               /\ TextResponseWith(Str(""))

C8_Witness ==
    /\ BackendReturnedText
    /\ lastLlm.backend.val = Str("{\"type\":\"text\",\"content\":\"hello\"}")
    /\ lastLlm.result =
        Str("{\"role\":\"assistant\",\"content\":\"hello\",\"tool_calls\":[]}")

BackendThrewError ==
    /\ Settled(lastLlm)
    /\ lastLlm.backend.kind = "rejected"
    /\ IsErrorObj(lastLlm.backend.val)

ThrownMessage == lastLlm.backend.val.v

\* The texts message m reports between its first "Got outputMessage: " and
\* the first "Got error:" that follows it, or the end of m.
ReportedOutputs(m) ==
    LET starts == Occurrences(m, StartMarker)
        ends == Occurrences(m, EndMarker)
        len == Len(StartMarker)
    IN {SubSeq(m, p[1] + len, p[2]) :
          p \in {q \in starts \X (0..Len(m)) :
                   /\ \A k \in starts : q[1] <= k
                   /\ q[2] >= q[1] + len - 1
                   /\ \A j \in ends : ~(q[1] + len <= j /\ j <= q[2])
                   /\ \/ (q[2] + 1) \in ends
                      \/ q[2] = Len(m) /\ \A j \in ends : j < q[1] + len}}

RecoveredReportedOutput ==
    /\ lastLlm.pc = "resolved"
    /\ lastLlm.value.shape = "response"
    /\ lastLlm.value.calls = <<>>
    /\ lastLlm.value.content.t = "string"
    /\ lastLlm.value.content.v \in {Trim(t) : t \in ReportedOutputs(ThrownMessage)}
    /\ lastLlm.result = Str(ResponseText(lastLlm.value.content, <<>>))

\* C9 as stated: whenever the backend call throws an error whose message
\* embeds "Got outputMessage: <text>", the call resolves to
\* {role:"assistant", content:<text>, tool_calls:[]} with <text> trimmed.
C9_RecoversWheneverOutputMessageEmbedded ==
    (BackendThrewError /\ Includes(ThrownMessage, StartMarker))
        => RecoveredReportedOutput

\* C9 amended: the same whenever the message also contains the marker
\* "parsing outputMessage"; without it the error is reported as in C10.
C9_RecoversOutputMessage ==
    (/\ BackendThrewError
     /\ Includes(ThrownMessage, GateMarker)
     /\ Includes(ThrownMessage, StartMarker))
        => RecoveredReportedOutput

C9_Witness ==
    /\ BackendThrewError
    /\ ThrownMessage = "Error encountered when parsing outputMessage for function calling. Got outputMessage: Hello there Got error: SyntaxError"
    /\ lastLlm.result =
        Str("{\"role\":\"assistant\",\"content\":\"Hello there\",\"tool_calls\":[]}")

\* The returned content of the last call failed to parse as JSON.
BackendContentUnparsable ==
    /\ Settled(lastLlm)
    /\ lastLlm.backend.kind = "fulfilled"
    /\ JSONparse(ContentText(lastLlm.backend.val)).threw

\* C10: when the backend call throws, or the returned content fails to parse
\* as JSON, with an error message m that does not contain the marker
\* "parsing outputMessage", the call resolves to
\* {role:"assistant", content:"Error: "+m, tool_calls:[]}.
C10_GenericErrorReported ==
    /\ (BackendThrewError /\ ~Includes(ThrownMessage, GateMarker))
            => TextResponseWith(Str("Error: " \o ThrownMessage))
    /\ (/\ BackendContentUnparsable
        /\ ~Includes(JSONparse(ContentText(lastLlm.backend.val)).val.v, GateMarker))
            => TextResponseWith(
                 Str("Error: " \o JSONparse(ContentText(lastLlm.backend.val)).val.v))

C10_Witness ==
    /\ BackendThrewError
    /\ ThrownMessage = "boom"
    /\ lastLlm.result =
        Str("{\"role\":\"assistant\",\"content\":\"Error: boom\",\"tool_calls\":[]}")

(* ---------------------------------------------------------------------- *)
(* Properties of the parameters built for the backend call                 *)
(* ---------------------------------------------------------------------- *)

\* The call of the state has built its parameters.
ParamsBuilt == callMessages # 0

\* The tools and the history of the request, [] when absent.
OfferedTools == OrEmpty(callRequest.tools)
History == OrEmpty(callRequest.messages)

\* The schema and the messages handed to the backend.
Schema == completionParams.response_format.schema
Handed == completionParams.messages

\* The text of s between the first occurrence of open and the first
\* occurrence of close after it.
Between(s, open, close) ==
    LET from == Min(Occurrences(s, open)) + Len(open)
        to == Min({j \in Occurrences(s, close) : j >= from}) - 1
    IN SubSeq(s, from, to)

\* The pieces of s between its commas.
Pieces(s) ==
    LET cuts == {0, Len(s) + 1} \cup Occurrences(s, ",")
    IN {SubSeq(s, a + 1, Min({b \in cuts : b > a}) - 1) : a \in cuts \ {Len(s) + 1}}

EnumMarker == "\"enum\":["

\* The values a schema text lists in its "enum" array, read back with
\* JSON.parse; the empty set when it has no enumeration.
EnumNames(schema) ==
    IF ~Includes(schema, EnumMarker) THEN {}
    ELSE LET inner == Between(schema, EnumMarker, "]")
         IN IF inner = "" THEN {} ELSE {JSONparse(piece).val : piece \in Pieces(inner)}

HasToolCallVariant(schema) ==
    /\ Includes(schema, "\"const\":\"tool_call\"")
    /\ Includes(schema, "\"required\":[\"type\",\"name\",\"arguments\"]")

HasTextVariant(schema) ==
    /\ Includes(schema, "\"const\":\"text\"")
    /\ Includes(schema, "\"required\":[\"type\",\"content\"]")

\* C12: for every non-empty sequence of tool specs of a request, the schema
\* sent to the backend has a tool_call variant whose name enumeration holds
\* exactly the names of those tools (none missing, none extra, none from an
\* earlier request), with required fields type, name, arguments, beside a
\* text variant with required fields type, content.
C12_SchemaEnumeratesOfferedTools ==
    (ParamsBuilt /\ Len(OfferedTools) > 0)
        => /\ HasToolCallVariant(Schema)
           /\ HasTextVariant(Schema)
           /\ EnumNames(Schema) =
                {OfferedTools[i].name : i \in 1..Len(OfferedTools)}

\* A later request offering only "search": the enumeration is ["search"].
C12_Witness ==
    /\ ParamsBuilt
    /\ callRequest = Request(Items(<<UserHi>>), Items(<<SearchSpec>>), Undef, Undef)
    /\ EnumNames(Schema) = {Str("search")}

\* C13: the schema has the tool_call variant if and only if the tools of the
\* request are a non-empty sequence; with tools empty or absent the schema
\* describes the text variant {type:"text", content:string} alone.
C13_ToolCallVariantIffToolsOffered ==
    ParamsBuilt
        => /\ HasToolCallVariant(Schema) <=> Len(OfferedTools) > 0
           /\ HasTextVariant(Schema)
           /\ Len(OfferedTools) = 0
                => /\ ~Includes(Schema, "tool_call")
                   /\ ~Includes(Schema, "oneOf")
                   /\ EnumNames(Schema) = {}
                   /\ Between(Schema, "\"properties\":{", "}}") =
                        "\"type\":{\"type\":\"string\",\"const\":\"text\"},"
                        \o "\"content\":{\"type\":\"string\""

\* A request with a history and without a tools property.
C13_Witness ==
    /\ ParamsBuilt
    /\ callRequest.tools = Absent
    /\ Len(History) > 0
    /\ HasTextVariant(Schema)
    /\ ~Includes(Schema, "tool_call")

\* Where message j of the history stands in the handed sequence: at j when
\* the history begins with a system message (which is replaced), one
\* further when the generated system message is prepended.
PositionOf(j) == IF History[1].role = Str("system") THEN j ELSE j + 1

\* The messages of the history that are tool results carrying a call id.
ToolResults ==
    {j \in 1..Len(History) :
        History[j].role = Str("tool") /\ History[j].tool_call_id.t = "string"}

\* The text of a content: the string itself, or its JSON text.
ContentAsText(c) == IF c.t = "string" THEN c.v ELSE JSONstringify(c).v

\* Message j, a tool result, is handed on as a user message whose content
\* names id and carries the text of the content.
HandedAsToolResult(j, id) ==
    /\ PositionOf(j) \in 1..Len(Handed)
    /\ Handed[PositionOf(j)] =
         [role |-> Str("user"),
          content |-> Str("[Tool result from " \o id \o "]: "
                          \o ContentAsText(History[j].content))]

\* C14 as stated: every tool message {role:"tool", tool_call_id:i, content:c}
\* of the history is handed to the backend as a user message at the same
\* relative position with content "[Tool result from "+i+"]: "+s, s being c
\* when c is a string and the JSON text of c otherwise.
C14_ToolResultNamesEveryCallId ==
    ParamsBuilt
        => \A j \in ToolResults : HandedAsToolResult(j, History[j].tool_call_id.v)

\* C14 amended: the same for every non-empty call id i; with an empty call
\* id the content names "unknown" in its place.
C14_ToolResultAsUserMessage ==
    ParamsBuilt
        => \A j \in ToolResults :
              HandedAsToolResult(j, IF History[j].tool_call_id.v # ""
                                    THEN History[j].tool_call_id.v
                                    ELSE "unknown")

\* A tool result with an object content, second in its history.
C14_Witness ==
    /\ ParamsBuilt
    /\ Len(History) = 2
    /\ History[2] = Msg(Str("tool"), Obj("{\"x\":1}"), Str("c1"), Absent)
    /\ Handed[PositionOf(2)] =
         [role |-> Str("user"), content |-> Str("[Tool result from c1]: {\"x\":1}")]

\* The assistant messages of the history that carry at least one tool call.
CallingMessages ==
    {j \in 1..Len(History) :
        /\ History[j].role = Str("assistant")
        /\ History[j].tool_calls.defined
        /\ Len(History[j].tool_calls.items) > 0}

RECURSIVE CallSummary(_)
\* "Called {name} with {JSON of arguments}" for each call, in call order,
\* with "; " between one call and the next.
CallSummary(calls) ==
    LET one == "Called " \o calls[1].name.v \o " with "
                   \o JSONstringify(calls[1].arguments).v
    IN IF Len(calls) = 1 THEN one ELSE one \o "; " \o CallSummary(Tail(calls))

\* C15: every assistant message with non-empty tool_calls is handed to the
\* backend as an assistant message whose content is the "; "-joined sequence
\* of "Called {name} with {JSON of arguments}", one per call in call order,
\* and which has no tool_calls field; its original content is discarded.
C15_AssistantCallsFlattened ==
    ParamsBuilt
        => \A j \in CallingMessages :
              /\ PositionOf(j) \in 1..Len(Handed)
              /\ DOMAIN Handed[PositionOf(j)] = {"role", "content"}
              /\ Handed[PositionOf(j)].role = Str("assistant")
              /\ Handed[PositionOf(j)].content =
                    Str(CallSummary(History[j].tool_calls.items))

\* An assistant message with content "thinking" and two calls, first in its
\* history.
C15_Witness ==
    /\ ParamsBuilt
    /\ 1 \in CallingMessages
    /\ History[1].content = Str("thinking")
    /\ Handed[2] =
         [role |-> Str("assistant"),
          content |-> Str("Called echo with {\"x\":1}; Called search with {}")]

\* The messages of the history that are neither tool results nor assistant
\* messages with tool calls, and that the generated system message does not
\* replace.
PlainMessages ==
    {j \in 1..Len(History) :
        /\ History[j].role # Str("tool")
        /\ j \notin CallingMessages
        /\ ~(j = 1 /\ History[1].role = Str("system"))}

\* C25: every message that is neither tool-role nor an assistant message
\* with non-empty tool_calls is handed on with its role, with its content
\* unchanged when that is a string, and with the JSON text of its content
\* when that is an object, an array, a number, a boolean or null.
C25_PlainContentAsJsonText ==
    ParamsBuilt
        => \A j \in PlainMessages :
              /\ PositionOf(j) \in 1..Len(Handed)
              /\ Handed[PositionOf(j)].role = History[j].role
              /\ History[j].content.t = "string"
                   => Handed[PositionOf(j)].content = History[j].content
              /\ History[j].content.t \in {"object", "array", "number", "boolean", "null"}
                   => Handed[PositionOf(j)].content = JSONstringify(History[j].content)

CanonicalRoles == {Str("system"), Str("user"), Str("assistant"), Str("tool")}

BackendRoles == {Str("system"), Str("user"), Str("assistant")}

\* The history of the request uses the canonical roles only.
CanonicalHistory == \A j \in 1..Len(History) : History[j].role \in CanonicalRoles

\* The message object has a property k with a value.
HasProp(m, k) == k \in DOMAIN m /\ m[k] # Undef /\ m[k] # Absent

\* C16: for every request whose messages use only the roles system, user,
\* assistant and tool, every message handed to the backend has a role among
\* system, user and assistant, a string content, and neither a tool_call_id
\* nor a tool_calls field.
C16_HandedMessagesRestricted ==
    (ParamsBuilt /\ CanonicalHistory)
        => \A k \in 1..Len(Handed) :
              /\ Handed[k].role \in BackendRoles
              /\ Handed[k].content.t = "string"
              /\ ~HasProp(Handed[k], "tool_call_id")
              /\ ~HasProp(Handed[k], "tool_calls")

\* An assistant message with tool calls followed by its tool result.
C16_Witness ==
    /\ ParamsBuilt
    /\ CanonicalHistory
    /\ Len(History) = 2
    /\ 1 \in CallingMessages
    /\ 2 \in ToolResults
    /\ Len(Handed) = 3
    /\ Handed[3].role = Str("user")

\* The first converted message of the history has role system.
LeadingSystemMessage ==
    Len(History) > 0 /\ ConvertMessage(History[1]).role = Str("system")

\* C17: the sequence handed to the backend begins with the generated system
\* message; when the first converted message has role system it is replaced
\* (the length is that of the history), otherwise the generated message is
\* prepended (the length is one more); the remaining messages keep their
\* conversation order.
C17_GeneratedSystemMessageFirst ==
    ParamsBuilt
        => /\ Len(Handed) >= 1
           /\ Handed[1] =
                [role |-> Str("system"), content |-> Str(SystemContent(OfferedTools))]
           /\ IF LeadingSystemMessage
              THEN /\ Len(Handed) = Len(History)
                   /\ \A j \in 2..Len(History) :
                         Handed[j] = ConvertMessage(History[j])
              ELSE /\ Len(Handed) = Len(History) + 1
                   /\ \A j \in 1..Len(History) :
                         Handed[j + 1] = ConvertMessage(History[j])

\* A history of a system message "sys" and a user message, with one tool
\* offered: "sys" is replaced by the prompt that lists the tool.
C17_Witness ==
    /\ ParamsBuilt
    /\ History = <<Msg(Str("system"), Str("sys"), Undef, Absent), UserHi>>
    /\ OfferedTools = <<EchoSpec>>
    /\ Len(Handed) = 2
    /\ Includes(Handed[1].content.v, "Available tools:\n- echo: Echo")
    /\ Handed[2] = [role |-> Str("user"), content |-> Str("hi")]

\* C18: building the parameters never changes its input: afterwards the
\* caller's messages array holds, element for element, the messages it held
\* before; the sequence handed to the backend is another array, made of
\* message objects built by the conversion, on the path that replaces a
\* leading system message too.
C18_CallerMessagesUnchanged ==
    ParamsBuilt
        => /\ callRequest.messages.defined
                => /\ arrays[1] = callRequest.messages.items
                   /\ callMessages # 1
           /\ arrays[callMessages] = Handed

\* The path that replaces a leading system message: map and slice made two
\* arrays beside the caller's, whose first element is still "sys".
C18_Witness ==
    /\ ParamsBuilt
    /\ Len(History) = 2
    /\ History[1] = Msg(Str("system"), Str("sys"), Undef, Absent)
    /\ Len(arrays) = 3
    /\ callMessages = 3
    /\ arrays[1][1] = Msg(Str("system"), Str("sys"), Undef, Absent)
    /\ arrays[3][1] = SystemMessage(OfferedTools)

\* The history h is normalized for the tools T: roles among system, user and
\* assistant, string contents, no tool_calls, and a first message equal to
\* the system message generated for T.
NormalizedFor(h, T) ==
    /\ Len(h) > 0
    /\ h[1].role = Str("system")
    /\ h[1].content = Str(SystemContent(T))
    /\ \A k \in 1..Len(h) :
          /\ h[k].role \in BackendRoles
          /\ h[k].content.t = "string"
          /\ ~HasProp(h[k], "tool_calls")
          /\ ~HasProp(h[k], "tool_call_id")

\* A handed sequence read as the history of a request: a property a message
\* object does not have reads undefined.
Reread(h) == [k \in 1..Len(h) |-> Msg(h[k].role, h[k].content, Undef, Absent)]

\* The messages built for a request with history h and tools T.
Normalize(h, T) == CompletionParams(Request(Items(h), Items(T), Undef, Undef)).messages

\* C19: normalization is idempotent on normalized input: for every tool set
\* T, a history that is normalized for T is handed on as it is, and
\* normalizing what was handed on once more yields the same sequence.
C19_NormalizationIdempotent ==
    ParamsBuilt
        => /\ NormalizedFor(History, OfferedTools)
                => /\ Reread(Handed) = History
                   /\ Normalize(Reread(Handed), OfferedTools) = Handed
           /\ NormalizedFor(Handed, OfferedTools)
                => Normalize(Reread(Handed), OfferedTools) = Handed

\* A normalized history of two messages, handed on unchanged.
C19_Witness ==
    /\ ParamsBuilt
    /\ Len(History) = 2
    /\ NormalizedFor(History, OfferedTools)
    /\ History[2] = Msg(Str("assistant"), Str("ok"), Undef, Absent)
    /\ Reread(Handed) = History
    /\ Normalize(Reread(Handed), OfferedTools) = Handed

\* The system prompt handed to the backend.
Prompt == Handed[1].content.v

\* The line the prompt carries for tool t.
ToolLine(t) ==
    "- " \o t.name.v \o ": " \o t.description.v
        \o "\n  Parameters: " \o JSONstringify(t.parameters).v

TextInstruction == "For text: {\"type\": \"text\", \"content\": \"your response\"}"

ToolCallInstruction ==
    "For tool use: {\"type\": \"tool_call\", \"name\": \"tool_name\", \"arguments\": {\"param\": \"value\"}}"

\* The prompt lists every offered tool, with name, description and parameter
\* schema, and as many tool lines as there are offered tools.
PromptListsOfferedTools ==
    /\ \A i \in 1..Len(OfferedTools) : Includes(Prompt, ToolLine(OfferedTools[i]))
    /\ Cardinality(Occurrences(Prompt, "\n- ")) = Len(OfferedTools)
    /\ Cardinality(Occurrences(Prompt, "\n  Parameters: ")) = Len(OfferedTools)

\* The prompt ends with the two response-format instructions, each once.
PromptEndsWithTwoInstructions ==
    LET tail == "Response format:\n" \o TextInstruction \o "\n" \o ToolCallInstruction
    IN /\ Len(Prompt) >= Len(tail)
       /\ SubSeq(Prompt, Len(Prompt) - Len(tail) + 1, Len(Prompt)) = tail
       /\ Cardinality(Occurrences(Prompt, "{\"type\": \"text\"")) = 1
       /\ Cardinality(Occurrences(Prompt, "{\"type\": \"tool_call\"")) = 1

\* The instructions of the prompt name the variants of the schema of the
\* same call, and no other.
InstructionsMatchSchema ==
    /\ Includes(Prompt, "{\"type\": \"text\"") <=> HasTextVariant(Schema)
    /\ Includes(Prompt, "{\"type\": \"tool_call\"") <=> HasToolCallVariant(Schema)

\* C21 as stated: for every tools sequence, empty or not, the generated
\* system prompt lists every offered tool's name, description and parameter
\* schema and no other tool, and ends with exactly two response-format
\* instructions, one for text and one for tool_call, matching the variants
\* of the schema of the same call.
C21_PromptAlwaysEndsWithTwoInstructions ==
    ParamsBuilt
        => /\ PromptListsOfferedTools
           /\ PromptEndsWithTwoInstructions
           /\ InstructionsMatchSchema

\* C21 amended: the same for every non-empty tools sequence; with tools
\* empty or absent the prompt lists no tool and carries the text instruction
\* alone, matching the text-only schema of the call.
C21_PromptMatchesOfferedTools ==
    ParamsBuilt
        => /\ PromptListsOfferedTools
           /\ InstructionsMatchSchema
           /\ Len(OfferedTools) > 0 => PromptEndsWithTwoInstructions
           /\ Len(OfferedTools) = 0
                => /\ Cardinality(Occurrences(Prompt, "{\"type\": \"text\"")) = 1
                   /\ ~Includes(Prompt, "tool_call")
                   /\ ~Includes(Prompt, "Available tools")

\* Two tools offered: both are listed, then the two instructions.
C21_Witness ==
    /\ ParamsBuilt
    /\ OfferedTools = <<SearchSpec, EchoSpec>>
    /\ Includes(Prompt, "- search: Search the web\n  Parameters: {\"x\":1}\n- echo: Echo\n  Parameters: {}\n\n")
    /\ PromptEndsWithTwoInstructions

(* ---------------------------------------------------------------------- *)
(* Properties of the backend call                                          *)
(* ---------------------------------------------------------------------- *)

\* C20: the backend call carries the temperature and the max_tokens of the
\* request whenever the request provides them, the value 0 included, and the
\* defaults 0.7 and 2048 only when the field is absent or null; it always
\* carries response_format {type:"json_object", schema}.
C20_SamplingParametersPassedOn ==
    \A c \in BagToSet(llmInFlight) :
        LET req == RequestProps[c.requestJson]
        IN /\ c.params.temperature =
                IF IsNullish(req.temperature) THEN Num("0.7") ELSE req.temperature
           /\ c.params.max_tokens =
                IF IsNullish(req.max_tokens) THEN Num("2048") ELSE req.max_tokens
           /\ c.params.response_format.type = "json_object"
           /\ c.params.response_format.schema = SchemaFor(OrEmpty(req.tools))

\* A call of amplifier_llm_complete has settled.
LlmSettled == lastLlm.pc # "none"

\* Every backend call in flight is a non-streaming one, issued for a
\* request that parsed.
InFlightNonStreaming ==
    \A c \in BagToSet(llmInFlight) :
        /\ c.params.stream = FALSE
        /\ ~JSONparse(c.requestJson).threw

LlmCalled == llmInFlight' # llmInFlight \/ (lastLlm' # lastLlm /\ lastLlm'.backendCalls = 0)

\* C30: the backend session starts uninitialized and becomes initialized
\* only when an initWebLLM call completes successfully; an initWebLLM call
\* that fails, for want of WebGPU or because the engine cannot be created,
\* leaves the initialization state as it was; and in every uninitialized
\* state amplifier_llm_complete issues no backend call.
C30_InitializedOnlyBySuccessfulInit ==
    /\ ~webllmEngine
    /\ [][webllmEngine' # webllmEngine => (webllmEngine' /\ initWebLLM(TRUE, TRUE))]_vars
    /\ [][\A gpu, created \in BOOLEAN :
             (~(gpu /\ created) /\ initWebLLM(gpu, created))
                => UNCHANGED webllmEngine]_vars
    /\ [][webllmEngine => webllmEngine']_vars
    /\ [][(~webllmEngine /\ LlmCalled)
             => /\ llmInFlight' = llmInFlight
                /\ lastLlm'.backendCalls = 0
                /\ lastLlm'.value = NotInitialized]_vars

\* A call answered while the session was uninitialized, and a backend call
\* in flight after initWebLLM succeeded.
C30_Witness ==
    /\ webllmEngine
    /\ LlmSettled
    /\ ~lastLlm.engine
    /\ lastLlm.value = NotInitialized
    /\ llmInFlight # EmptyBag

\* The names of the tools the request of the last call offered.
OfferedNames ==
    LET tools == OrEmpty(RequestProps[lastLlm.requestJson].tools)
    IN {tools[i].name : i \in 1..Len(tools)}

\* C31: every tool call in a response returned by amplifier_llm_complete
\* names a tool offered in the tools of its request, whatever the backend
\* put out; a request with empty tools never yields a response with
\* non-empty tool_calls.
C31_ToolCallsNameOfferedTools ==
    (LlmSettled /\ lastLlm.requestJson \in DOMAIN RequestProps)
        => \A i \in 1..Len(lastLlm.value.calls) :
              lastLlm.value.calls[i].name \in OfferedNames
====
